---- MODULE Spec2Model ----
(***************************************************************************)
(* A model of the Orb particle simulation: the physics step of Simulation  *)
(* (src/src/Simulation.cpp) and the Particle trail ring buffer             *)
(* (src/src/Particle.hpp).                                                 *)
(*                                                                         *)
(* Numbers.  The program computes in IEEE floats.  The model computes in   *)
(* fixed point: a float is an integer count of ticks, Scale ticks to the   *)
(* unit.  + and - are exact; *, / and sqrt give the exact result when it   *)
(* is a whole number of ticks and the nearest tick otherwise, as a float   *)
(* operation gives the nearest float.  The constants of the program        *)
(* (1/30, 0.9, 3.5, 0.5) are whole numbers of ticks.  Where a float keeps  *)
(* its relative precision and a tick would not (the length and the         *)
(* direction of a short vector, the reciprocal of a distance), the model   *)
(* works from the exact integers instead: Hypot, Magnified, TimesInvDist.  *)
(* NaN, infinities and quantities below one tick (the 1e-6 guards) are not *)
(* resolved.  Every value stays below 2^31.                                *)
(***************************************************************************)
EXTENDS Integers, Sequences, FiniteSets, TLC

(***************************************************************************)
(* Fixed-point arithmetic standing for `float`.                            *)
(***************************************************************************)
Scale == 2 * 2 * 2 * 3 * 3 * 5

IAbs(a) == IF a < 0 THEN -a ELSE a

Sign(a) == IF a < 0 THEN -1 ELSE 1

\* p / q to the nearest integer, for p >= 0 and q > 0
RoundDiv(p, q) == (p \div q) + (IF 2 * (p % q) >= q THEN 1 ELSE 0)

\* the float n/d
Num(n, d) == Sign(n) * RoundDiv(IAbs(n) * Scale, d)

\* float * float
FMul(a, b) ==
    LET x == IAbs(a)
        y == IAbs(b)
    IN  Sign(a) * Sign(b) * ((x \div Scale) * y + RoundDiv((x % Scale) * y, Scale))

\* float / float, for b # 0
FDiv(a, b) ==
    LET x == IAbs(a)
        y == IAbs(b)
    IN  Sign(a) * Sign(b) * ((x \div y) * Scale + RoundDiv((x % y) * Scale, y))

\* the largest root SquareAtMost can square in 32 bits
MaxRoot == 2416 * Scale

\* s * s <= a * Scale, for s, a >= 0, without forming either product
SquareAtMost(s, a) ==
    LET sh == s \div Scale
        sl == s % Scale
        q  == sh * s + sl * sh + ((sl * sl) \div Scale)
        r  == (sl * sl) % Scale
    IN  s <= MaxRoot /\ (q < a \/ (q = a /\ r = 0))

\* the largest s with s * s <= a * Scale, found bit by bit
RECURSIVE SqrtBits(_, _, _)
SqrtBits(a, s, bit) ==
    IF bit = 0 THEN s
    ELSE IF SquareAtMost(s + bit, a) THEN SqrtBits(a, s + bit, bit \div 2)
    ELSE SqrtBits(a, s, bit \div 2)

\* s or s + 1, whichever is nearer the root of a * Scale, s being its floor
NearestRoot(a, s) ==
    LET sh == s \div Scale
        sl == s % Scale
        q  == sh * s + sl * sh + ((sl * sl) \div Scale)
        r  == (sl * sl) % Scale
    IN  IF (a - q) * Scale - r > s THEN s + 1 ELSE s

\* std::sqrt of a >= 0, to the nearest tick
Sqrt(a) == NearestRoot(a, SqrtBits(a, 0, 524288))

FAbs(a) == IAbs(a)

\* std::min(a, b): b when b < a, else a
FMin(a, b) == IF b < a THEN b ELSE a

\* the largest s with s * s <= n, for 0 <= n < 2^31
RECURSIVE RootBits(_, _, _)
RootBits(n, s, bit) ==
    IF bit = 0 THEN s
    ELSE IF s + bit <= 46340 /\ (s + bit) * (s + bit) <= n
         THEN RootBits(n, s + bit, bit \div 2)
         ELSE RootBits(n, s, bit \div 2)

\* std::sqrt(x * x + y * y) to the nearest tick.  A float keeps its relative
\* precision however small the operands, so where the exact sum of squares
\* fits in 32 bits the root is taken of that; beyond, of the rounded squares.
NearestInt(n, s) == IF n - s * s > s THEN s + 1 ELSE s

Hypot(x, y) ==
    IF IAbs(x) < 32768 /\ IAbs(y) < 32768
    THEN NearestInt(x * x + y * y, RootBits(x * x + y * y, 0, 32768))
    ELSE Sqrt(FMul(x, x) + FMul(y, y))

(***************************************************************************)
(* Math.hpp: Vec2 and clamp.                                               *)
(***************************************************************************)
Vec2(x_, y_) == [x |-> x_, y |-> y_]

\* Vec2::operator+
VAdd(a, o) == Vec2(a.x + o.x, a.y + o.y)

\* Vec2::operator-
VSub(a, o) == Vec2(a.x - o.x, a.y - o.y)

\* Vec2::operator*(float)
VScale(a, s) == Vec2(FMul(a.x, s), FMul(a.y, s))

dot(a, o) == FMul(a.x, o.x) + FMul(a.y, o.y)

lengthSq(a) == FMul(a.x, a.x) + FMul(a.y, a.y)

\* std::sqrt(lengthSq())
length(a) == Hypot(a.x, a.y)

\* A float vector keeps its relative precision at every size.  A short
\* vector is doubled until a component reaches 8192 ticks, so that its
\* direction is not lost in the rounding of its length.
RECURSIVE Magnified(_)
Magnified(a) ==
    IF (a.x = 0 /\ a.y = 0) \/ IAbs(a.x) >= 8192 \/ IAbs(a.y) >= 8192 THEN a
    ELSE Magnified([x |-> 2 * a.x, y |-> 2 * a.y])

\* Vec2(x / len, y / len)
Over(a, len) == Vec2(FDiv(a.x, len), FDiv(a.y, len))

UnitOf(m) == Over(m, length(m))

normalized(a) ==
    IF length(a) <= 0 THEN Vec2(0, 0) ELSE UnitOf(Magnified(a))

clamp(v, lo, hi) ==
    IF v < lo THEN lo
    ELSE IF v > hi THEN hi
    ELSE v

(***************************************************************************)
(* Particle.hpp and GravityWell.hpp.                                       *)
(***************************************************************************)
MAX_TRAIL_LENGTH == 60

\* Particle::Particle: every trail slot holds the creation position
\* variant: a constructor that leaves the trail slots at Vec2()
ParticleTrailUnfilled(pos_, vel_, radius_, color_) ==
    [pos |-> pos_, vel |-> vel_, radius |-> radius_, color |-> color_,
     trail |-> [i \in 0..(MAX_TRAIL_LENGTH - 1) |-> Vec2(0, 0)],
     trailLength |-> 1, trailIndex |-> 0]

Particle(pos_, vel_, radius_, color_) ==
    [pos |-> pos_, vel |-> vel_, radius |-> radius_, color |-> color_,
     trail |-> [i \in 0..(MAX_TRAIL_LENGTH - 1) |-> pos_],
     trailLength |-> 1, trailIndex |-> 0]

\* variant: a trail whose index runs on past the last slot
updateTrailNoWrap(p) ==
    [p EXCEPT !.trail = [i \in (DOMAIN p.trail) \cup {p.trailIndex} |->
                            IF i = p.trailIndex THEN p.pos ELSE p.trail[i]],
              !.trailIndex = p.trailIndex + 1,
              !.trailLength = IF p.trailLength < MAX_TRAIL_LENGTH
                              THEN p.trailLength + 1 ELSE p.trailLength]

updateTrail(p) ==
    [p EXCEPT !.trail[p.trailIndex] = p.pos,
              !.trailIndex = (p.trailIndex + 1) % MAX_TRAIL_LENGTH,
              !.trailLength = IF p.trailLength < MAX_TRAIL_LENGTH
                              THEN p.trailLength + 1 ELSE p.trailLength]

\* variant: a readout that starts at trailIndex
TrailSlotFromIndex(p, i) == (p.trailIndex + i) % MAX_TRAIL_LENGTH

\* Renderer::drawParticles: the slot of the i-th of the trailLength samples
\* of p, oldest first
TrailSlot(p, i) ==
    (p.trailIndex - p.trailLength + i + MAX_TRAIL_LENGTH) % MAX_TRAIL_LENGTH

\* the samples the trail of p holds
TrailSamples(p) == { p.trail[TrailSlot(p, i)] : i \in 0..(p.trailLength - 1) }

\* GravityWell::GravityWell(pos_) with the default strength and minRadius
GravityWell(pos_) ==
    [pos |-> pos_, strength |-> Num(1200000, 1), minRadius |-> Num(8, 1)]

\* GravityWell::GravityWell(pos_, strength_, minRadius_)
GravityWellOf(pos_, strength_, minRadius_) ==
    [pos |-> pos_, strength |-> strength_, minRadius |-> minRadius_]

(***************************************************************************)
(* Simulation.cpp: the constants and the stages of Simulation::update.     *)
(***************************************************************************)
MAX_DT == Num(1, 30)

TINY_SPEED == Num(1, 2)

GRAVITY_PULL == Num(400, 1)

GRAVITY_RANGE == Num(2000, 1)

\* dx * dx + dy * dy < 1.0e-6f for dx, dy whole numbers of ticks: one tick
\* squared is 7.7e-6, so only dx = dy = 0 passes
BelowEpsilonSq(dx, dy) == dx = 0 /\ dy = 0

\* dist > MIN_SEPARATION (1.0e-6f) for dist a whole number of ticks
AboveMinSeparation(dist) == dist > 0

\* (dx * invDist, dy * invDist) with invDist = 1.0f / dist.  The reciprocal
\* of a distance is a fraction of a tick, which fixed point cannot hold; the
\* float products equal dx / dist and dy / dist to 1 part in 10^7, and those
\* quotients are what is formed.
TimesInvDist(dx, dy) == normalized(Vec2(dx, dy))

\* variant: a pull that grows with the distance to the well
GravityPullUnnormalized(p, well, dt) ==
    [p EXCEPT !.vel.x = @ + FMul(FMul(well.pos.x - p.pos.x, GRAVITY_PULL), dt),
              !.vel.y = @ + FMul(FMul(well.pos.y - p.pos.y, GRAVITY_PULL), dt)]

\* the body of the inner loop of stage 0: the pull of one well on one particle
GravityPull(p, well, dt) ==
    LET dx == well.pos.x - p.pos.x
        dy == well.pos.y - p.pos.y
    IN  IF BelowEpsilonSq(dx, dy) THEN p
        ELSE LET dist == Hypot(dx, dy)
             IN  IF dist > GRAVITY_RANGE THEN p
                 ELSE LET accelMag == GRAVITY_PULL
                          dir      == TimesInvDist(dx, dy)
                      IN  [p EXCEPT
                            !.vel.x = @ + FMul(FMul(dir.x, accelMag), dt),
                            !.vel.y = @ + FMul(FMul(dir.y, accelMag), dt)]

\* the inner loop of stage 0: wells k..Len(wells) in order
RECURSIVE GravityFrom(_, _, _, _)
GravityFrom(p, wells, k, dt) ==
    IF k > Len(wells) THEN p
    ELSE GravityFrom(GravityPull(p, wells[k], dt), wells, k + 1, dt)

\* stage 0 over all particles
ApplyGravity(ps, wells, dt) ==
    [i \in 1..Len(ps) |-> GravityFrom(ps[i], wells, 1, dt)]

\* variant: an integration that also records the new position in the trail
IntegrateOneTrailing(p, dt) ==
    updateTrail([p EXCEPT !.pos.x = @ + FMul(p.vel.x, dt),
                          !.pos.y = @ + FMul(p.vel.y, dt)])

\* stage 1 for one particle
IntegrateOne(p, dt) ==
    [p EXCEPT !.pos.x = @ + FMul(p.vel.x, dt),
              !.pos.y = @ + FMul(p.vel.y, dt)]

Integrate(ps, dt) == [i \in 1..Len(ps) |-> IntegrateOne(ps[i], dt)]

\* stage 2, the test of one pair: dist < sumR
Overlapping(a, b) == length(VSub(b.pos, a.pos)) < a.radius + b.radius

\* stage 2, the collision normal of an overlapping pair
Normal(a, b) ==
    LET delta == VSub(b.pos, a.pos)
    IN  IF AboveMinSeparation(length(delta)) THEN normalized(delta)
        ELSE Vec2(Num(1, 1), 0)

\* a.pos -= n * (overlap * (m2 / totalMass)); b.pos += n * (overlap * (m1 / totalMass))
\* variant: each body pushed by the share of its own mass
PushApartOwnMass(a, b, n, overlap) ==
    LET m1        == FMul(a.radius, a.radius)
        m2        == FMul(b.radius, b.radius)
        totalMass == m1 + m2
    IN  <<[a EXCEPT !.pos = VSub(@, VScale(n, FMul(overlap, FDiv(m1, totalMass))))],
          [b EXCEPT !.pos = VAdd(@, VScale(n, FMul(overlap, FDiv(m2, totalMass))))]>>

PushApart(a, b, n, overlap) ==
    LET m1        == FMul(a.radius, a.radius)
        m2        == FMul(b.radius, b.radius)
        totalMass == m1 + m2
    IN  <<[a EXCEPT !.pos = VSub(@, VScale(n, FMul(overlap, FDiv(m2, totalMass))))],
          [b EXCEPT !.pos = VAdd(@, VScale(n, FMul(overlap, FDiv(m1, totalMass))))]>>

\* overlap = sumR - dist
Overlap(a, b) == (a.radius + b.radius) - length(VSub(b.pos, a.pos))

\* variant: a soft correction that removes half of the overlap
CorrectPositionsSoft(a, b) ==
    PushApart(a, b, Normal(a, b), FMul(Overlap(a, b), Num(1, 2)))

\* stage 2, the position correction of an overlapping pair
CorrectPositions(a, b) == PushApart(a, b, Normal(a, b), Overlap(a, b))

\* variant: the velocity change applied across the normal
KickAcross(a, b, n, ja, jb) ==
    <<[a EXCEPT !.vel.x = @ + FMul(ja, n.y), !.vel.y = @ - FMul(ja, n.x)],
      [b EXCEPT !.vel.x = @ - FMul(jb, n.y), !.vel.y = @ + FMul(jb, n.x)]>>

\* a.vel -= (ja * n); b.vel += (jb * n), component by component
Kick(a, b, n, ja, jb) ==
    <<[a EXCEPT !.vel.x = @ - FMul(ja, n.x), !.vel.y = @ - FMul(ja, n.y)],
      [b EXCEPT !.vel.x = @ + FMul(jb, n.x), !.vel.y = @ + FMul(jb, n.y)]>>

\* impulse = (1.0f + restitution) * (v1n - v2n) / totalMass
Impulse(a, b, n, restitution_) ==
    FDiv(FMul(Num(1, 1) + restitution_, dot(a.vel, n) - dot(b.vel, n)),
         FMul(a.radius, a.radius) + FMul(b.radius, b.radius))

\* impulse * m2 for a and impulse * m1 for b
WeighOther(a, b, n, impulse) ==
    Kick(a, b, n, FMul(impulse, FMul(b.radius, b.radius)),
                  FMul(impulse, FMul(a.radius, a.radius)))

\* variant: each body's velocity change weighted by its own mass
WeighOwn(a, b, n, impulse) ==
    Kick(a, b, n, FMul(impulse, FMul(a.radius, a.radius)),
                  FMul(impulse, FMul(b.radius, b.radius)))

ApplyImpulseOwnMass(a, b, n, restitution_) ==
    WeighOwn(a, b, n, Impulse(a, b, n, restitution_))

\* variant: the impulse without the 1 + of (1 + restitution)
ApplyImpulseNoOne(a, b, n, restitution_) ==
    WeighOther(a, b, n, Impulse(a, b, n, restitution_ - Num(1, 1)))

\* variant: an impulse for pairs that close along the normal only
ApplyImpulseClosingOnly(a, b, n, restitution_) ==
    IF dot(a.vel, n) - dot(b.vel, n) > 0
    THEN WeighOther(a, b, n, Impulse(a, b, n, restitution_))
    ELSE <<a, b>>

\* stage 2, the impulse of an overlapping pair along the normal n
ApplyImpulse(a, b, n, restitution_) ==
    WeighOther(a, b, n, Impulse(a, b, n, restitution_))

\* the impulse applied to a corrected pair c = <<a, b>>
ImpulseOn(c, n, restitution_) == ApplyImpulse(c[1], c[2], n, restitution_)

\* stage 2, the response of an overlapping pair: correction, then impulse
\* along the normal taken before the correction
ResolvePair(a, b, restitution_) ==
    ImpulseOn(CorrectPositions(a, b), Normal(a, b), restitution_)

\* variant: an inner loop that steps j by two
NextPairSkipping(i, j, n) == IF j + 2 <= n THEN <<i, j + 2>> ELSE <<i + 1, i + 2>>

\* the pair after (i, j) in the scan  for i: for j = i + 1 .. n
NextPair(i, j, n) == IF j + 1 <= n THEN <<i, j + 1>> ELSE <<i + 1, i + 2>>

\* particles[i] and particles[j] replaced by the pair r
WithPair(ps, i, j, r) == [ps EXCEPT ![i] = r[1], ![j] = r[2]]

\* the scan state after pair (i, j) was examined and found apart
Passed(st, i, j) == [st EXCEPT !.scan = Append(@, <<i, j>>)]

\* the scan state after pair (i, j) was examined, found overlapping and resolved
Resolved(st, i, j, restitution_) ==
    [ps   |-> WithPair(st.ps, i, j, ResolvePair(st.ps[i], st.ps[j], restitution_)),
     scan |-> Append(st.scan, <<i, j>>),
     hits |-> Append(st.hits, <<i, j>>)]

\* the scan state after pair (i, j)
Examined(st, i, j, restitution_) ==
    IF Overlapping(st.ps[i], st.ps[j]) THEN Resolved(st, i, j, restitution_)
    ELSE Passed(st, i, j)

\* stage 2: the scan from pair (i, j) on.  st.ps are the particles, st.scan the
\* pairs examined so far and st.hits those of them found overlapping.
RECURSIVE CollideFrom(_, _, _, _)
CollideFrom(st, i, j, restitution_) ==
    IF i >= Len(st.ps) \/ j > Len(st.ps) THEN st
    ELSE CollideFrom(Examined(st, i, j, restitution_),
                     NextPair(i, j, Len(st.ps))[1], NextPair(i, j, Len(st.ps))[2],
                     restitution_)

Collide(ps, restitution_) ==
    CollideFrom([ps |-> ps, scan |-> <<>>, hits |-> <<>>], 1, 2, restitution_)

\* stage 3, drag
ApplyDrag(p, drag_, dt) ==
    IF drag_ > 0
    THEN LET d == Num(1, 1) - FMul(drag_, dt)
         IN  [p EXCEPT !.vel.x = FMul(@, d), !.vel.y = FMul(@, d)]
    ELSE p

\* stage 3, the four wall tests in the order of the code
WallLeft(p, restitution_) ==
    IF p.pos.x - p.radius < 0
    THEN [p EXCEPT !.pos.x = p.radius,
                   !.vel.x = FMul(FAbs(p.vel.x), restitution_)]
    ELSE p

\* variant: the right wall response without std::abs
WallRightNoAbs(p, worldW_, restitution_) ==
    IF p.pos.x + p.radius > worldW_
    THEN [p EXCEPT !.pos.x = worldW_ - p.radius,
                   !.vel.x = FMul(-p.vel.x, restitution_)]
    ELSE p

WallRight(p, worldW_, restitution_) ==
    IF p.pos.x + p.radius > worldW_
    THEN [p EXCEPT !.pos.x = worldW_ - p.radius,
                   !.vel.x = FMul(-FAbs(p.vel.x), restitution_)]
    ELSE p

WallTop(p, restitution_) ==
    IF p.pos.y - p.radius < 0
    THEN [p EXCEPT !.pos.y = p.radius,
                   !.vel.y = FMul(FAbs(p.vel.y), restitution_)]
    ELSE p

WallBottom(p, worldH_, restitution_) ==
    IF p.pos.y + p.radius > worldH_
    THEN [p EXCEPT !.pos.y = worldH_ - p.radius,
                   !.vel.y = FMul(-FAbs(p.vel.y), restitution_)]
    ELSE p

\* variant: the wall stage without its right and bottom tests
WallsLeftTopOnly(p, worldW_, worldH_, restitution_) ==
    WallTop(WallLeft(p, restitution_), restitution_)

Walls(p, worldW_, worldH_, restitution_) ==
    WallBottom(WallTop(WallRight(WallLeft(p, restitution_), worldW_, restitution_),
                       restitution_), worldH_, restitution_)

\* variant: the clamp applied whether or not the world holds wells
TinySpeedClampAlways(p, wells) ==
    LET speedSq == FMul(p.vel.x, p.vel.x) + FMul(p.vel.y, p.vel.y)
    IN  IF speedSq < FMul(TINY_SPEED, TINY_SPEED)
        THEN [p EXCEPT !.vel.x = 0, !.vel.y = 0]
        ELSE p

\* stage 3, the tiny-speed clamp
TinySpeedClamp(p, wells) ==
    LET speedSq   == FMul(p.vel.x, p.vel.x) + FMul(p.vel.y, p.vel.y)
        skipClamp == wells # <<>>
    IN  IF ~skipClamp /\ speedSq < FMul(TINY_SPEED, TINY_SPEED)
        THEN [p EXCEPT !.vel.x = 0, !.vel.y = 0]
        ELSE p

\* variant: the frame time taken as given
ClampDtNone(dt) == dt

\* dt = std::min(dt, MAX_DT)
ClampDt(dt) == FMin(dt, MAX_DT)

\* stage 3 over all particles, one step after the other
DragAll(ps, drag_, dt) == [i \in 1..Len(ps) |-> ApplyDrag(ps[i], drag_, dt)]

WallsAll(ps, w) ==
    [i \in 1..Len(ps) |-> Walls(ps[i], w.worldW, w.worldH, w.restitution)]

ClampAll(ps, wells) == [i \in 1..Len(ps) |-> TinySpeedClamp(ps[i], wells)]

\* what each stage of an update of w left, the stages handed on one by one
StagesAfterWalls(w, dt, gravity, moved, col, dragged, walled) ==
    [dt |-> dt, gravity |-> gravity, moved |-> moved, scan |-> col.scan,
     hits |-> col.hits, collided |-> col.ps, dragged |-> dragged,
     walled |-> walled, final |-> ClampAll(walled, w.gravityWells)]

StagesAfterDrag(w, dt, gravity, moved, col, dragged) ==
    StagesAfterWalls(w, dt, gravity, moved, col, dragged, WallsAll(dragged, w))

StagesAfterCollide(w, dt, gravity, moved, col) ==
    StagesAfterDrag(w, dt, gravity, moved, col, DragAll(col.ps, w.drag, dt))

StagesAfterMove(w, dt, gravity, moved) ==
    StagesAfterCollide(w, dt, gravity, moved, Collide(moved, w.restitution))

\* variant: positions integrated with the velocities stage 0 started from
StagesMovedFirst(w, dt, gravity) ==
    StagesAfterMove(w, dt, gravity,
        [i \in 1..Len(gravity) |->
            [gravity[i] EXCEPT !.pos = IntegrateOne(w.particles[i], dt).pos]])

StagesAfterGravity(w, dt, gravity) ==
    StagesAfterMove(w, dt, gravity, Integrate(gravity, dt))

StagesAt(w, dt) ==
    StagesAfterGravity(w, dt, ApplyGravity(w.particles, w.gravityWells, dt))

\* Simulation::update(dt) on a world w = [worldW, worldH, restitution, drag,
\* particles, gravityWells]: what each stage leaves
UpdateStages(w, dt_) == StagesAt(w, ClampDt(dt_))

\* variant: an update that also empties the wells
updateDropsWells(w, dt_) ==
    [w EXCEPT !.particles = UpdateStages(w, dt_).final, !.gravityWells = <<>>]

\* variant: an update that hands the particles back in reverse order
updateReversed(w, dt_) ==
    [w EXCEPT !.particles =
        [i \in 1..Len(@) |-> UpdateStages(w, dt_).final[Len(@) + 1 - i]]]

update(w, dt_) == [w EXCEPT !.particles = UpdateStages(w, dt_).final]

\* variant: a clear that forgets the wells
clearParticlesOnly(w) == [w EXCEPT !.particles = <<>>]

\* Simulation::clear
clear(w) == [w EXCEPT !.particles = <<>>, !.gravityWells = <<>>]

\* Simulation::addGravityWell
addGravityWell(w, x, y) ==
    [w EXCEPT !.gravityWells = Append(@, GravityWell(Vec2(x, y)))]

(***************************************************************************)
(* The state machine.  simulation is one Simulation object; last records   *)
(* the operation that produced the current state, the frame time it was    *)
(* given and the world it was applied to.                                  *)
(***************************************************************************)
\* simulation, and beside it the history the claims read: last (the last
\* operation on the world, the world it started from and, of a spawn, the
\* position asked for), steps and pushes (how many
\* updates and trail pushes have run), pushed (the positions the
\* trail pushes recorded, oldest first), created (where each particle of
\* simulation.particles was constructed), and app, the fields of App
VARIABLES simulation, last, steps, pushes, pushed, created, app

vars == <<simulation, last, steps, pushes, pushed, created, app>>

MaxBodies == 2

MaxWells == 1

MaxSteps == 2

MaxPushes == 62

MaxEvents == 6

\* worldW, worldH as the window reports them (App::init, the resize event)
BoundsInputs ==
    { <<Num(1280, 1), Num(720, 1)>>, <<Num(100, 1), Num(100, 1)>>,
      <<Num(8, 1), Num(8, 1)>> }

\* restitution and drag, the two public coefficients of Simulation
Params == { <<Num(9, 10), 0>>, <<Num(1, 2), Num(3, 1)>> }

\* frame times handed to update
FrameTimes == { Num(1, 60), Num(1, 30), Num(1, 10) }

\* Color(): every component 1.0
White == [r |-> Num(1, 1), g |-> Num(1, 1), b |-> Num(1, 1), a |-> Num(1, 1)]

Body(x, y, vx, vy, r) == Particle(Vec2(x, y), Vec2(vx, vy), r, White)

\* particles handed to particles.emplace_back
BodyInputs ==
    { Body(Num(5, 1), Num(50, 1), Num(1, 4), 0, Num(5, 1)),
      Body(Num(12, 1), Num(50, 1), Num(-60, 1), 0, Num(5, 1)),
      Body(Num(6, 1), Num(6, 1), Num(-60, 1), Num(-90, 1), Num(5, 1)),
      Body(Num(94, 1), Num(94, 1), Num(90, 1), Num(60, 1), Num(7, 2)) }

\* positions handed to addGravityWell
WellInputs == { Vec2(Num(50, 1), Num(50, 1)), Vec2(Num(2100, 1), Num(50, 1)) }

\* a Simulation as its member initialisers leave it
NewSimulation ==
    [worldW |-> Num(1280, 1), worldH |-> Num(720, 1),
     restitution |-> Num(9, 10), drag |-> 0,
     particles |-> <<>>, gravityWells |-> <<>>]

NoOp == [op |-> "init", dt |-> 0, pre |-> NewSimulation]

\* an App as its member initialisers leave it, and the state of the loop of
\* App::run: how many events it has handled and whether it has ended
NewApp ==
    [width |-> 1280, height |-> 720, selectedPlaceable |-> "Particle",
     running |-> TRUE, paused |-> FALSE, dragActive |-> FALSE,
     dragStartX |-> 0, dragStartY |-> 0, handled |-> 0, exited |-> FALSE]

\* where the particles ps stand
Positions(ps) == [i \in 1..Len(ps) |-> ps[i].pos]

Init ==
    /\ \E c \in Params :
         simulation = [NewSimulation EXCEPT !.restitution = c[1], !.drag = c[2]]
    /\ last = NoOp
    /\ steps = 0
    /\ pushes = 0
    /\ pushed = <<>>
    /\ created = <<>>
    /\ app = NewApp

\* particles.emplace_back(pos, vel, radius, color)
AddParticle(b) ==
    /\ Len(simulation.particles) < MaxBodies
    /\ simulation' = [simulation EXCEPT !.particles = Append(@, b)]
    /\ last' = [op |-> "add", dt |-> 0, pre |-> simulation]
    /\ created' = Append(created, b.pos)
    /\ UNCHANGED <<steps, pushes, pushed, app>>

AddWell(pos) ==
    /\ Len(simulation.gravityWells) < MaxWells
    /\ simulation' = addGravityWell(simulation, pos.x, pos.y)
    /\ last' = [op |-> "well", dt |-> 0, pre |-> simulation]
    /\ UNCHANGED <<steps, pushes, pushed, created, app>>

\* worldW = w; worldH = h
SetBounds(w, h) ==
    /\ <<w, h>> # <<simulation.worldW, simulation.worldH>>
    /\ simulation' = [simulation EXCEPT !.worldW = w, !.worldH = h]
    /\ last' = [op |-> "bounds", dt |-> 0, pre |-> simulation]
    /\ UNCHANGED <<steps, pushes, pushed, created, app>>

Update(dt) ==
    /\ steps < MaxSteps
    /\ simulation' = update(simulation, dt)
    /\ last' = [op |-> "update", dt |-> dt, pre |-> simulation]
    /\ steps' = steps + 1
    /\ UNCHANGED <<pushes, pushed, created, app>>

Clear ==
    /\ last.op # "clear"
    /\ simulation' = clear(simulation)
    /\ last' = [op |-> "clear", dt |-> 0, pre |-> simulation]
    /\ created' = <<>>
    /\ UNCHANGED <<steps, pushes, pushed, app>>

\* clear() on a world clear() has just emptied
ClearAgain ==
    /\ last.op = "clear"
    /\ simulation' = clear(simulation)
    /\ last' = [op |-> "clear2", dt |-> 0, pre |-> simulation]
    /\ created' = <<>>
    /\ UNCHANGED <<steps, pushes, pushed, app>>

Next ==
    \/ \E b \in BodyInputs : AddParticle(b)
    \/ \E pos \in WellInputs : AddWell(pos)
    \/ \E s \in BoundsInputs : SetBounds(s[1], s[2])
    \/ \E dt \in FrameTimes : Update(dt)
    \/ Clear
    \/ ClearAgain

Spec == Init /\ [][Next]_vars

(***************************************************************************)
(* The pair response on its own: two overlapping particles are handed to   *)
(* the body of the collision loop once.  The inputs are chosen so that     *)
(* every intermediate value is a whole number of ticks.                    *)
(***************************************************************************)
PairRestitutions == { 0, Num(1, 2), Num(9, 10), Num(1, 1) }

PairRadii == { Num(1, 1), Num(2, 1) }

\* b.pos - a.pos: coincident centres, an axis-aligned and a 3-4-5 offset
PairOffsets == { Vec2(0, 0), Vec2(Num(1, 1), 0), Vec2(Num(3, 5), Num(4, 5)) }

PairVelocitiesA ==
    { Vec2(0, 0), Vec2(Num(5000, 1), 0), Vec2(Num(-5000, 1), Num(5000, 1)) }

PairVelocitiesB ==
    { Vec2(0, 0), Vec2(0, Num(-5000, 1)), Vec2(Num(5000, 1), Num(5000, 1)) }

InitPair ==
    /\ \E e \in PairRestitutions, ra \in PairRadii, rb \in PairRadii,
          d \in PairOffsets, va \in PairVelocitiesA, vb \in PairVelocitiesB :
         simulation =
           [NewSimulation EXCEPT
              !.restitution = e,
              !.particles =
                 << Particle(Vec2(Num(50, 1), Num(50, 1)), va, ra, White),
                    Particle(Vec2(Num(50, 1) + d.x, Num(50, 1) + d.y), vb, rb, White) >>]
    /\ last = NoOp
    /\ steps = 0
    /\ pushes = 0
    /\ pushed = <<>>
    /\ created = Positions(simulation.particles)
    /\ app = NewApp

\* one pass through the body of the collision loop for the pair (1, 2)
Resolve ==
    /\ last.op = "init"
    /\ Overlapping(simulation.particles[1], simulation.particles[2])
    /\ LET r == ResolvePair(simulation.particles[1], simulation.particles[2],
                            simulation.restitution)
       IN  simulation' = [simulation EXCEPT !.particles = <<r[1], r[2]>>]
    /\ last' = [op |-> "resolve", dt |-> 0, pre |-> simulation]
    /\ UNCHANGED <<steps, pushes, pushed, created, app>>

NextPairResponse == Resolve

SpecPair == InitPair /\ [][NextPairResponse]_vars

(***************************************************************************)
(* The trail of one particle: updateTrail and frames of a world that holds *)
(* that particle alone, in turn.                                           *)
(***************************************************************************)
TrailBodies ==
    { Body(Num(6, 1), Num(6, 1), Num(-60, 1), Num(-90, 1), Num(5, 1)),
      Body(Num(94, 1), Num(94, 1), Num(90, 1), Num(60, 1), Num(7, 2)) }

InitTrail ==
    /\ \E b \in TrailBodies :
         simulation = [NewSimulation EXCEPT !.particles = <<b>>]
    /\ last = NoOp
    /\ steps = 0
    /\ pushes = 0
    /\ pushed = <<>>
    /\ created = Positions(simulation.particles)
    /\ app = NewApp

\* particles[0].updateTrail()
TrailPush ==
    /\ pushes < MaxPushes
    /\ last.op # "push"
    /\ simulation' = [simulation EXCEPT !.particles[1] = updateTrail(@)]
    /\ last' = [op |-> "push", dt |-> 0, pre |-> simulation]
    /\ pushes' = pushes + 1
    /\ pushed' = Append(pushed, simulation.particles[1].pos)
    /\ UNCHANGED <<steps, created, app>>

\* one frame between two pushes
TrailFrame ==
    /\ last.op = "push"
    /\ simulation' = update(simulation, MAX_DT)
    /\ last' = [op |-> "update", dt |-> MAX_DT, pre |-> simulation]
    /\ UNCHANGED <<steps, pushes, pushed, created, app>>

NextTrail == TrailPush \/ TrailFrame

SpecTrail == InitTrail /\ [][NextTrail]_vars

(***************************************************************************)
(* Stage 0 on its own: one update of a world that holds one particle and   *)
(* one or two wells.  The wells stand at offsets from the particle whose   *)
(* direction is a whole number of ticks: on the particle, along an axis,   *)
(* along a 3-4-5 diagonal, at the range exactly and beyond it.             *)
(***************************************************************************)
GravityOffsets ==
    { Vec2(0, 0), Vec2(Num(30, 1), 0), Vec2(0, Num(-40, 1)),
      Vec2(Num(3, 1), Num(4, 1)), Vec2(Num(-1200, 1), Num(-1600, 1)),
      Vec2(Num(1203, 1), Num(1604, 1)) }

\* strength and minRadius of a well: the defaults and another pair
GravityStrengths == { <<Num(1200000, 1), Num(8, 1)>>, <<Num(1, 1), Num(100, 1)>> }

GravityVelocities == { Vec2(0, 0), Vec2(Num(30, 1), Num(-40, 1)) }

GravityWells ==
    { GravityWellOf(Vec2(Num(640, 1) + d.x, Num(360, 1) + d.y), c[1], c[2]) :
        d \in GravityOffsets, c \in GravityStrengths }

InitGravity ==
    /\ \E v \in GravityVelocities, a \in GravityWells, b \in GravityWells,
          both \in BOOLEAN :
         simulation =
           [NewSimulation EXCEPT
              !.particles = << Particle(Vec2(Num(640, 1), Num(360, 1)), v,
                                        Num(5, 1), White) >>,
              !.gravityWells = IF both THEN <<a, b>> ELSE <<a>>]
    /\ last = NoOp
    /\ steps = 0
    /\ pushes = 0
    /\ pushed = <<>>
    /\ created = Positions(simulation.particles)
    /\ app = NewApp

\* the one update of that world
Pull(dt) ==
    /\ last.op = "init"
    /\ simulation' = update(simulation, dt)
    /\ last' = [op |-> "update", dt |-> dt, pre |-> simulation]
    /\ steps' = steps + 1
    /\ UNCHANGED <<pushes, pushed, created, app>>

NextGravity == \E dt \in FrameTimes : Pull(dt)

SpecGravity == InitGravity /\ [][NextGravity]_vars

(***************************************************************************)
(* The pair scan on its own: one update of a world of up to four bodies,   *)
(* three of them in a row so close that each overlaps the next, the fourth *)
(* far away; a body may be listed twice (coincident centres).              *)
(***************************************************************************)
MaxScanBodies == 4

ScanBodies ==
    { Body(Num(44, 1), Num(50, 1), Num(60, 1), 0, Num(5, 1)),
      Body(Num(53, 1), Num(50, 1), 0, 0, Num(5, 1)),
      Body(Num(62, 1), Num(50, 1), Num(-60, 1), Num(30, 1), Num(7, 2)),
      Body(Num(300, 1), Num(300, 1), 0, Num(90, 1), Num(5, 1)) }

ScanWorlds ==
    UNION { [1..n -> ScanBodies] : n \in 0..MaxScanBodies }

InitScan ==
    /\ \E ps \in ScanWorlds : simulation = [NewSimulation EXCEPT !.particles = ps]
    /\ last = NoOp
    /\ steps = 0
    /\ pushes = 0
    /\ pushed = <<>>
    /\ created = Positions(simulation.particles)
    /\ app = NewApp

\* the one update of that world
Scan(dt) ==
    /\ last.op = "init"
    /\ simulation' = update(simulation, dt)
    /\ last' = [op |-> "update", dt |-> dt, pre |-> simulation]
    /\ steps' = steps + 1
    /\ UNCHANGED <<pushes, pushed, created, app>>

NextScan == \E dt \in FrameTimes : Scan(dt)

SpecScan == InitScan /\ [][NextScan]_vars

(***************************************************************************)
(* App.cpp: the host.  The events of handleEvent and the frames of         *)
(* App::run act on the App and on the Simulation App::init has made; the   *)
(* pixel coordinates of the events are whole numbers.                      *)
(***************************************************************************)
velocityStrength == Num(6, 1)

particleRadius == Num(7, 2)

\* randomBrightColor at h = 0 and at h = 1/2, fully saturated
BrightColors ==
    { [r |-> Num(1, 1), g |-> 0, b |-> 0, a |-> Num(1, 1)],
      [r |-> 0, g |-> Num(1, 1), b |-> Num(1, 1), a |-> Num(1, 1)] }

\* where the left button goes down in the main window
PressPoints == { <<0, 0>>, <<50, 40>> }

\* how far the pointer has moved when the button goes up
DragOffsets == { <<10, -5>> }

\* sizes the main window is resized to
WindowSizes == { <<40, 40>>, <<6, 6>> }

\* clicks in the menu window: the Particle slot, the Gravity Well slot, neither
MenuClicks == { <<20, 50>>, <<20, 120>>, <<5, 5>> }

\* App::init: a Simulation whose bounds are the size of the window
InitApp ==
    /\ app = NewApp
    /\ simulation = [NewSimulation EXCEPT !.worldW = Num(NewApp.width, 1),
                                          !.worldH = Num(NewApp.height, 1)]
    /\ last = NoOp
    /\ steps = 0
    /\ pushes = 0
    /\ pushed = <<>>
    /\ created = <<>>

\* variant: a spawn that keeps the requested position
spawnParticleUnclamped(w, x, y, vx, vy, color) ==
    [w EXCEPT !.particles =
        Append(@, Particle(Vec2(x, y), Vec2(vx, vy), particleRadius, color))]

spawnParticle(w, x, y, vx, vy, color) ==
    [w EXCEPT !.particles =
        Append(@, Particle(Vec2(clamp(x, particleRadius, w.worldW - particleRadius),
                                clamp(y, particleRadius, w.worldH - particleRadius)),
                           Vec2(vx, vy), particleRadius, color))]

\* variant: a spawn that adds the well twice
spawnGravityWellTwice(w, x, y) == addGravityWell(addGravityWell(w, x, y), x, y)

spawnGravityWell(w, x, y) == addGravityWell(w, x, y)

\* the loop of App::run is polling events
Handling == ~app.exited /\ app.handled < MaxEvents

\* SDL_QUIT, and SDL_KEYDOWN with SDLK_ESCAPE
Quit ==
    /\ Handling
    /\ app.running
    /\ app' = [app EXCEPT !.handled = @ + 1, !.running = FALSE]
    /\ UNCHANGED <<simulation, last, steps, pushes, pushed, created>>

\* SDL_KEYDOWN with SDLK_r
KeyR ==
    /\ Handling
    /\ simulation' = clear(simulation)
    /\ last' = [op |-> "clear", dt |-> 0, pre |-> simulation]
    /\ created' = <<>>
    /\ app' = [app EXCEPT !.handled = @ + 1]
    /\ UNCHANGED <<steps, pushes, pushed>>

\* variant: a Space key that only ever pauses
PauseOnly(paused) == TRUE

TogglePaused(paused) == ~paused

\* SDL_KEYDOWN with SDLK_SPACE
KeySpace ==
    /\ Handling
    /\ app' = [app EXCEPT !.handled = @ + 1, !.paused = TogglePaused(@)]
    /\ last' = [op |-> "space", dt |-> 0, pre |-> simulation]
    /\ UNCHANGED <<simulation, steps, pushes, pushed, created>>

\* the slot of the menu a click at (mx, my) selects
MenuSlot(mx, my, selected) ==
    IF mx >= 12 /\ mx < 188 /\ my >= 36 /\ my < 96 THEN "Particle"
    ELSE IF mx >= 12 /\ mx < 188 /\ my >= 104 /\ my < 164 THEN "GravityWell"
    ELSE selected

\* SDL_MOUSEBUTTONDOWN, left button, menu window
MenuClick(mx, my) ==
    /\ Handling
    /\ app' = [app EXCEPT !.handled = @ + 1, !.selectedPlaceable = MenuSlot(mx, my, @)]
    /\ UNCHANGED <<simulation, last, steps, pushes, pushed, created>>

\* SDL_MOUSEBUTTONDOWN, left button, main window
MainPress(x, y) ==
    /\ Handling
    /\ app' = [app EXCEPT !.handled = @ + 1, !.dragActive = TRUE, !.dragStartX = x, !.dragStartY = y]
    /\ UNCHANGED <<simulation, last, steps, pushes, pushed, created>>

\* SDL_MOUSEBUTTONUP, left button, main window, while a drag is active and
\* the Particle slot is selected
ReleaseParticle(endX, endY, color) ==
    /\ Handling
    /\ app.dragActive
    /\ app.selectedPlaceable = "Particle"
    /\ Len(simulation.particles) < MaxBodies
    /\ simulation' =
         spawnParticle(simulation, Num(app.dragStartX, 1), Num(app.dragStartY, 1),
                       FMul(Num(endX - app.dragStartX, 1), velocityStrength),
                       FMul(Num(endY - app.dragStartY, 1), velocityStrength), color)
    /\ created' = Append(created, simulation'.particles[Len(simulation'.particles)].pos)
    /\ app' = [app EXCEPT !.handled = @ + 1, !.dragActive = FALSE]
    /\ last' = [op |-> "spawn", dt |-> 0, pre |-> simulation,
                x |-> Num(app.dragStartX, 1), y |-> Num(app.dragStartY, 1)]
    /\ UNCHANGED <<steps, pushes, pushed>>

\* the same release while the Gravity Well slot is selected
ReleaseWell ==
    /\ Handling
    /\ app.dragActive
    /\ app.selectedPlaceable = "GravityWell"
    /\ Len(simulation.gravityWells) < MaxWells
    /\ simulation' =
         spawnGravityWell(simulation, Num(app.dragStartX, 1), Num(app.dragStartY, 1))
    /\ app' = [app EXCEPT !.handled = @ + 1, !.dragActive = FALSE]
    /\ last' = [op |-> "spawnWell", dt |-> 0, pre |-> simulation,
                x |-> Num(app.dragStartX, 1), y |-> Num(app.dragStartY, 1)]
    /\ UNCHANGED <<steps, pushes, pushed, created>>

\* SDL_MOUSEBUTTONUP, left button, another window, while a drag is active
ReleaseElsewhere ==
    /\ Handling
    /\ app.dragActive
    /\ app' = [app EXCEPT !.handled = @ + 1, !.dragActive = FALSE]
    /\ UNCHANGED <<simulation, last, steps, pushes, pushed, created>>

\* SDL_WINDOWEVENT_RESIZED of the main window
Resized(w, h) ==
    /\ Handling
    /\ <<w, h>> # <<app.width, app.height>>
    /\ app' = [app EXCEPT !.handled = @ + 1, !.width = w, !.height = h]
    /\ simulation' = [simulation EXCEPT !.worldW = Num(w, 1), !.worldH = Num(h, 1)]
    /\ last' = [op |-> "resize", dt |-> 0, pre |-> simulation]
    /\ UNCHANGED <<steps, pushes, pushed, created>>

\* variant: an update that runs whether or not the App is paused
AppUpdateAlways(w, paused, dt) == update(w, dt)

\* App::update
AppUpdate(w, paused, dt) == IF ~paused THEN update(w, dt) ELSE w

\* one turn of the loop of App::run once the pending events are handled:
\* App::update(dt), App::render(), then the test of running
Frame(dt) ==
    /\ ~app.exited
    /\ steps < MaxSteps
    /\ simulation' = AppUpdate(simulation, app.paused, dt)
    /\ last' = [op |-> IF app.paused THEN "pausedFrame" ELSE "update",
                dt |-> dt, pre |-> simulation]
    /\ steps' = steps + 1
    /\ app' = [app EXCEPT !.exited = ~app.running]
    /\ UNCHANGED <<pushes, pushed, created>>

NextApp ==
    \/ Quit
    \/ KeyR
    \/ KeySpace
    \/ \E c \in MenuClicks : MenuClick(c[1], c[2])
    \/ \E p \in PressPoints : MainPress(p[1], p[2])
    \/ \E d \in DragOffsets, c \in BrightColors :
          ReleaseParticle(app.dragStartX + d[1], app.dragStartY + d[2], c)
    \/ ReleaseWell
    \/ ReleaseElsewhere
    \/ \E s \in WindowSizes : Resized(s[1], s[2])
    \/ \E dt \in FrameTimes : Frame(dt)

SpecApp == InitApp /\ [][NextApp]_vars

(***************************************************************************)
(* The claims.  In a state an update has just produced, Stages is what     *)
(* each stage of that update left.                                         *)
(***************************************************************************)
Stages == UpdateStages(last.pre, last.dt)

Bodies == 1..Len(simulation.particles)

InsideX(p, w) == p.radius <= p.pos.x /\ p.pos.x <= w.worldW - p.radius

InsideY(p, w) == p.radius <= p.pos.y /\ p.pos.y <= w.worldH - p.radius

\* the wall stage of the update that left st repositioned particle i
WallMoved(st, i) == st.walled[i].pos # st.dragged[i].pos

\* C1 as stated: after any update every body satisfies
\* radius <= pos.x <= worldW - radius and radius <= pos.y <= worldH - radius,
\* whatever worldW and worldH are.
C1_AsStated ==
    last.op = "update" =>
        \A i \in Bodies :
            /\ InsideX(simulation.particles[i], simulation)
            /\ InsideY(simulation.particles[i], simulation)

\* C1 amended: after any update every body satisfies
\* radius <= pos.x <= worldW - radius when worldW >= 2 * radius, and
\* radius <= pos.y <= worldH - radius when worldH >= 2 * radius.
C1_WallContainment ==
    last.op = "update" =>
        \A i \in Bodies :
            LET p == simulation.particles[i]
            IN  /\ simulation.worldW >= 2 * p.radius => InsideX(p, simulation)
                /\ simulation.worldH >= 2 * p.radius => InsideY(p, simulation)

BroughtBack(st, w) ==
    \E i \in 1..Len(st.dragged) :
        /\ w.worldW >= 2 * st.dragged[i].radius
        /\ w.worldH >= 2 * st.dragged[i].radius
        /\ ~InsideX(st.dragged[i], w)
        /\ ~InsideY(st.dragged[i], w)
        /\ WallMoved(st, i)
        /\ InsideX(st.final[i], w)
        /\ InsideY(st.final[i], w)

\* an update whose wall stage brought a body back into a world wide enough
C1_Witness == last.op = "update" /\ BroughtBack(Stages, simulation)

\* C2: for every dt > 1/30 and every world, update(dt) leaves exactly the
\* state update(1/30) leaves.
C2_DtClamp ==
    (last.op = "update" /\ last.dt > MAX_DT) =>
        simulation = update(last.pre, MAX_DT)

\* an update with dt > 1/30 that moved a body
C2_Witness ==
    /\ last.op = "update"
    /\ last.dt > MAX_DT
    /\ \E i \in Bodies : simulation.particles[i].pos # last.pre.particles[i].pos

\* ticks by which a corrected distance may miss radius_i + radius_j: the
\* components of the normal are rounded to the tick, an error of up to 1 in
\* 720, and the overlap they scale is at most 3600 ticks
Tol == 8

Dist(a, b) == length(VSub(b.pos, a.pos))

Touching(a, b) ==
    /\ Dist(a, b) >= a.radius + b.radius - Tol
    /\ Dist(a, b) <= a.radius + b.radius + Tol

\* hit k of st is the only detected collision either of its bodies took part in
OnlyHit(st, k) ==
    \A l \in 1..Len(st.hits) :
        l # k => /\ st.hits[l][1] \notin { st.hits[k][1], st.hits[k][2] }
                 /\ st.hits[l][2] \notin { st.hits[k][1], st.hits[k][2] }

\* no wall test moved either body of hit k of st
AwayFromWalls(st, k) ==
    ~WallMoved(st, st.hits[k][1]) /\ ~WallMoved(st, st.hits[k][2])

\* the bodies of hit k of st touch in ps
TouchingHit(st, k, ps) == Touching(ps[st.hits[k][1]], ps[st.hits[k][2]])

AllHitsTouch(st, ps) == \A k \in 1..Len(st.hits) : TouchingHit(st, k, ps)

LoneHitsTouch(st, ps) ==
    \A k \in 1..Len(st.hits) :
        (OnlyHit(st, k) /\ AwayFromWalls(st, k)) => TouchingHit(st, k, ps)

\* some lone hit of st, away from the walls, was an overlap deeper than Tol
LoneHitSeparated(st) ==
    \E k \in 1..Len(st.hits) :
        /\ OnlyHit(st, k)
        /\ AwayFromWalls(st, k)
        /\ Dist(st.moved[st.hits[k][1]], st.moved[st.hits[k][2]])
             < st.moved[st.hits[k][1]].radius + st.moved[st.hits[k][2]].radius - Tol

Slow(p) == FMul(p.vel.x, p.vel.x) + FMul(p.vel.y, p.vel.y) < FMul(TINY_SPEED, TINY_SPEED)

AtRest(p) == p.vel.x = 0 /\ p.vel.y = 0

\* every slow body of ps is at rest, and so is every body the wall stage left slow
SlowOnesStopped(st, ps) ==
    \A i \in 1..Len(ps) :
        /\ Slow(ps[i]) => AtRest(ps[i])
        /\ Slow(st.walled[i]) => AtRest(ps[i])

\* every body of ps has the velocity the wall stage left it
NoneStopped(st, ps) == \A i \in 1..Len(ps) : ps[i].vel = st.walled[i].vel

\* C4: after an update of a world with no gravity well, every body slower
\* than 0.5 has velocity exactly (0, 0); after an update of a world with at
\* least one gravity well, however far, every body keeps the velocity the
\* wall stage left it, however slow.
C4_JitterClamp ==
    last.op = "update" =>
        /\ last.pre.gravityWells = <<>> => SlowOnesStopped(Stages, simulation.particles)
        /\ last.pre.gravityWells # <<>> => NoneStopped(Stages, simulation.particles)

\* an update of a world whose one well is out of range of every body, which
\* leaves a slow body its velocity
C4_Witness ==
    /\ last.op = "update"
    /\ last.pre.gravityWells # <<>>
    /\ \A i \in Bodies :
         Hypot(last.pre.gravityWells[1].pos.x - last.pre.particles[i].pos.x,
               last.pre.gravityWells[1].pos.y - last.pre.particles[i].pos.y)
           > GRAVITY_RANGE
    /\ \E i \in Bodies :
         Slow(simulation.particles[i]) /\ ~AtRest(simulation.particles[i])

SlowOneStopped(st, ps) ==
    \E i \in 1..Len(ps) :
        Slow(st.walled[i]) /\ ~AtRest(st.walled[i]) /\ AtRest(ps[i])

\* an update of a world without wells that brought a slow, moving body to rest
C4_WitnessNoWell ==
    /\ last.op = "update"
    /\ last.pre.gravityWells = <<>>
    /\ SlowOneStopped(Stages, simulation.particles)

\* the contact normal of the pair a response was applied to
PairNormal == Normal(last.pre.particles[1], last.pre.particles[2])

Mass(p) == FMul(p.radius, p.radius)

\* m_i * dot(vel_i, n) + m_j * dot(vel_j, n) of the pair held by world w
NormalMomentum(w, n) ==
    FMul(Mass(w.particles[1]), dot(w.particles[1].vel, n))
    + FMul(Mass(w.particles[2]), dot(w.particles[2].vel, n))

\* |v1n - v2n| of the pair held by world w
RelativeNormalSpeed(w, n) ==
    FAbs(dot(w.particles[1].vel, n) - dot(w.particles[2].vel, n))

\* C5: the response to an overlapping pair leaves
\* m_i * dot(vel_i, n) + m_j * dot(vel_j, n) unchanged, with m = radius^2 and
\* n the contact normal, for every restitution.
C5_MomentumConserved ==
    last.op = "resolve" =>
        NormalMomentum(simulation, PairNormal) = NormalMomentum(last.pre, PairNormal)

\* a response that changed the velocities of two bodies of unequal mass
C5_Witness ==
    /\ last.op = "resolve"
    /\ Mass(simulation.particles[1]) # Mass(simulation.particles[2])
    /\ simulation.particles[1].vel # last.pre.particles[1].vel
    /\ simulation.particles[2].vel # last.pre.particles[2].vel

\* C6: after the response to a colliding pair the relative normal speed
\* |v1n - v2n| is restitution times what it was before.
C6_RestitutionLaw ==
    last.op = "resolve" =>
        RelativeNormalSpeed(simulation, PairNormal)
          = FMul(simulation.restitution, RelativeNormalSpeed(last.pre, PairNormal))

\* a response to a pair closing along an oblique normal with a restitution
\* strictly between 0 and 1
C6_Witness ==
    /\ last.op = "resolve"
    /\ simulation.restitution > 0
    /\ simulation.restitution < Num(1, 1)
    /\ PairNormal.x # 0
    /\ PairNormal.y # 0
    /\ RelativeNormalSpeed(last.pre, PairNormal) > 0
    /\ RelativeNormalSpeed(simulation, PairNormal) > 0

\* C7: after clear() both collections are empty and worldW, worldH,
\* restitution and drag are what they were; a second clear() leaves the same
\* empty world.
C7_Clear ==
    /\ last.op \in {"clear", "clear2"} =>
         /\ simulation.particles = <<>>
         /\ simulation.gravityWells = <<>>
         /\ simulation.worldW = last.pre.worldW
         /\ simulation.worldH = last.pre.worldH
         /\ simulation.restitution = last.pre.restitution
         /\ simulation.drag = last.pre.drag
    /\ last.op = "clear2" => simulation = last.pre

\* a clear() of a world that held bodies and wells
C7_Witness ==
    /\ last.op = "clear"
    /\ last.pre.particles # <<>>
    /\ last.pre.gravityWells # <<>>
    /\ <<last.pre.worldW, last.pre.worldH>> # <<NewSimulation.worldW, NewSimulation.worldH>>

\* C8: update(dt) of a world without bodies changes nothing, whatever dt:
\* the bodies stay none, and the wells, the bounds, restitution and drag are
\* what they were.
C8_EmptyUpdate ==
    (last.op = "update" /\ last.pre.particles = <<>>) => simulation = last.pre

\* an update of a world that holds a well and no body
C8_Witness ==
    /\ last.op = "update"
    /\ last.pre.particles = <<>>
    /\ last.pre.gravityWells # <<>>
    /\ last.dt > MAX_DT

\* p is what the wall stage was handed, q what it left
CrossedLeft(p) == p.pos.x - p.radius < 0

CrossedRight(p, w) == p.pos.x + p.radius > w.worldW

CrossedTop(p) == p.pos.y - p.radius < 0

CrossedBottom(p, w) == p.pos.y + p.radius > w.worldH

BouncedLeft(p, q, w) ==
    /\ q.pos.x = q.radius
    /\ q.vel.x = FMul(FAbs(p.vel.x), w.restitution)
    /\ q.vel.x >= 0

BouncedRight(p, q, w) ==
    /\ q.pos.x = w.worldW - q.radius
    /\ q.vel.x = -FMul(FAbs(p.vel.x), w.restitution)
    /\ q.vel.x <= 0

BouncedTop(p, q, w) ==
    /\ q.pos.y = q.radius
    /\ q.vel.y = FMul(FAbs(p.vel.y), w.restitution)
    /\ q.vel.y >= 0

BouncedBottom(p, q, w) ==
    /\ q.pos.y = w.worldH - q.radius
    /\ q.vel.y = -FMul(FAbs(p.vel.y), w.restitution)
    /\ q.vel.y <= 0

\* every body the wall stage took across a wall left it bounced off that wall
AllBounced(st, w) ==
    \A i \in 1..Len(st.dragged) :
        /\ CrossedLeft(st.dragged[i]) => BouncedLeft(st.dragged[i], st.walled[i], w)
        /\ CrossedRight(st.dragged[i], w) => BouncedRight(st.dragged[i], st.walled[i], w)
        /\ CrossedTop(st.dragged[i]) => BouncedTop(st.dragged[i], st.walled[i], w)
        /\ CrossedBottom(st.dragged[i], w) => BouncedBottom(st.dragged[i], st.walled[i], w)

\* the same, each axis only for the bodies the world is wide or high enough for
FittingBounced(st, w) ==
    \A i \in 1..Len(st.dragged) :
        /\ w.worldW >= 2 * st.dragged[i].radius =>
             /\ CrossedLeft(st.dragged[i])
                  => BouncedLeft(st.dragged[i], st.walled[i], w)
             /\ CrossedRight(st.dragged[i], w)
                  => BouncedRight(st.dragged[i], st.walled[i], w)
        /\ w.worldH >= 2 * st.dragged[i].radius =>
             /\ CrossedTop(st.dragged[i])
                  => BouncedTop(st.dragged[i], st.walled[i], w)
             /\ CrossedBottom(st.dragged[i], w)
                  => BouncedBottom(st.dragged[i], st.walled[i], w)

\* C9 as stated: a body whose edge has crossed a wall when the wall stage
\* takes it leaves the stage tangent to that wall (pos = radius for left and
\* top, pos = bound - radius for right and bottom) with the matching velocity
\* component |v| * restitution pointing inward, whatever its sign was.
C9_AsStated == last.op = "update" => AllBounced(Stages, last.pre)

\* C9 amended: the same, for the left and right walls when worldW >= 2 *
\* radius and for the top and bottom walls when worldH >= 2 * radius.
C9_WallBounce == last.op = "update" => FittingBounced(Stages, last.pre)

TurnedBackRightBottom(st, w) ==
    \E i \in 1..Len(st.dragged) :
        /\ w.worldW >= 2 * st.dragged[i].radius
        /\ w.worldH >= 2 * st.dragged[i].radius
        /\ CrossedRight(st.dragged[i], w)
        /\ CrossedBottom(st.dragged[i], w)
        /\ st.dragged[i].vel.x > 0
        /\ st.dragged[i].vel.y > 0
        /\ st.walled[i].vel.x < 0
        /\ st.walled[i].vel.y < 0

TurnedBackLeftTop(st, w) ==
    \E i \in 1..Len(st.dragged) :
        /\ w.worldW >= 2 * st.dragged[i].radius
        /\ w.worldH >= 2 * st.dragged[i].radius
        /\ CrossedLeft(st.dragged[i])
        /\ CrossedTop(st.dragged[i])
        /\ st.dragged[i].vel.x < 0
        /\ st.dragged[i].vel.y < 0
        /\ st.walled[i].vel.x > 0
        /\ st.walled[i].vel.y > 0

\* an update in which a body moving outward crossed the right and the bottom
\* wall of a world wide and high enough, and left the wall stage moving inward
C9_Witness == last.op = "update" /\ TurnedBackRightBottom(Stages, last.pre)

\* an update in which a body moving outward crossed the left and the top wall
C9_WitnessLeftTop == last.op = "update" /\ TurnedBackLeftTop(Stages, last.pre)

\* C10: a call of updateTrail writes the current position at
\* trail[trailIndex], then sets trailIndex to (trailIndex + 1) mod 60 and
\* adds one to trailLength unless it is 60 already; after any sequence of
\* calls 0 <= trailIndex < 60 and 1 <= trailLength <= 60.
C10_TrailPush ==
    /\ \A i \in Bodies :
         /\ 0 <= simulation.particles[i].trailIndex
         /\ simulation.particles[i].trailIndex < 60
         /\ 1 <= simulation.particles[i].trailLength
         /\ simulation.particles[i].trailLength <= 60
    /\ last.op = "push" =>
         LET p == last.pre.particles[1]
             q == simulation.particles[1]
         IN  /\ DOMAIN q.trail = 0..59
             /\ q.trail[p.trailIndex] = p.pos
             /\ \A k \in 0..59 : k # p.trailIndex => q.trail[k] = p.trail[k]
             /\ q.trailIndex = (p.trailIndex + 1) % 60
             /\ q.trailLength = IF p.trailLength = 60 THEN 60 ELSE p.trailLength + 1
             /\ q.pos = p.pos
             /\ q.vel = p.vel

\* a call of updateTrail on a full trail whose index stands on the last slot:
\* the index wraps to 0, the length stays 60 and the slot takes a new position
C10_Witness ==
    /\ last.op = "push"
    /\ last.pre.particles[1].trailIndex = 59
    /\ last.pre.particles[1].trailLength = 60
    /\ simulation.particles[1].trailIndex = 0
    /\ simulation.particles[1].trail[59] # last.pre.particles[1].trail[59]

\* C11 as stated: after construction and after any number of trail pushes the
\* samples of a particle's trail include the position it was created at.
C11_AsStated ==
    \A i \in Bodies : created[i] \in TrailSamples(simulation.particles[i])

\* C11: after construction and after fewer than 60 trail pushes the samples
\* of a particle's trail include the position it was created at; the 60th
\* push overwrites the last slot that held it.
C11_TrailKeepsCreation ==
    \A i \in Bodies :
        pushes < MAX_TRAIL_LENGTH =>
            created[i] \in TrailSamples(simulation.particles[i])

\* the 59th push of a particle that has moved: the trail is full and its
\* oldest sample is still the creation position
C11_Witness ==
    /\ last.op = "push"
    /\ pushes = MAX_TRAIL_LENGTH - 1
    /\ simulation.particles[1].pos # created[1]
    /\ simulation.particles[1].trailLength = MAX_TRAIL_LENGTH
    /\ simulation.particles[1].trail[TrailSlot(simulation.particles[1], 0)] = created[1]

\* what tells one particle from another whatever update does to it
Identity(p) == <<p.radius, p.color, p.trail>>

Identities(ps) == [i \in 1..Len(ps) |-> Identity(ps[i])]

\* a step that leaves fewer particles or fewer wells is the r key, and the r
\* key leaves none of either; a frame leaves the same particles in the same
\* order and the same wells
OnlyClearDestroys(w, v) ==
    /\ (\/ Len(v.particles) < Len(w.particles)
        \/ Len(v.gravityWells) < Len(w.gravityWells)) => KeyR
    /\ KeyR => v.particles = <<>> /\ v.gravityWells = <<>>
    /\ (\E dt \in FrameTimes : Frame(dt)) =>
          /\ Identities(v.particles) = Identities(w.particles)
          /\ v.gravityWells = w.gravityWells

\* C12: over any sequence of host operations (spawn a body, spawn an
\* attractor, frame, resize, pause toggle, clear) the number of bodies and the
\* number of attractors never decrease except in clear, which sets both to
\* zero; update never adds, removes or reorders bodies or attractors.
C12_OnlyClearDestroys == [][OnlyClearDestroys(simulation, simulation')]_vars

\* an update has moved two particles that differ in colour or trail
C12_Witness ==
    /\ last.op = "update"
    /\ ~app.paused
    /\ Len(simulation.particles) = 2
    /\ Identity(simulation.particles[1]) # Identity(simulation.particles[2])
    /\ simulation.particles[1].pos # last.pre.particles[1].pos
    /\ simulation.particles[2].pos # last.pre.particles[2].pos

\* the r key has emptied a world that held a particle and a well
C12_WitnessClear ==
    /\ last.op = "clear"
    /\ Len(last.pre.particles) > 0
    /\ Len(last.pre.gravityWells) > 0
    /\ simulation.particles = <<>>
    /\ simulation.gravityWells = <<>>

\* the particle the last spawn appended
Spawned == simulation.particles[Len(simulation.particles)]

\* v lies in [lo, hi]
Within(v, lo, hi) == lo <= v /\ v <= hi

\* got is the value of [lo, hi] nearest to the requested one
Clamped(got, req, lo, hi) ==
    /\ Within(got, lo, hi)
    /\ Within(req, lo, hi) => got = req
    /\ req < lo => got = lo
    /\ req > hi => got = hi

C13_WitnessLow ==
    /\ last.op = "spawn"
    /\ simulation.worldW >= 2 * Spawned.radius
    /\ last.x = 0
    /\ Spawned.pos = Vec2(Spawned.radius, Spawned.radius)

\* the well lies within reach of p: not on it, and no farther than the range
InReach(p, well) ==
    /\ well.pos # p.pos
    /\ Hypot(well.pos.x - p.pos.x, well.pos.y - p.pos.y) <= GRAVITY_RANGE

\* the velocity the law gives p for one well: gravityPull * dt along the
\* unit vector toward a well within reach, nothing otherwise
LawPull(p, well, dt) ==
    IF InReach(p, well)
    THEN VScale(normalized(VSub(well.pos, p.pos)), FMul(GRAVITY_PULL, dt))
    ELSE Vec2(0, 0)

\* the sum of the law's pulls of wells k..Len(wells)
RECURSIVE LawPulls(_, _, _, _)
LawPulls(p, wells, k, dt) ==
    IF k > Len(wells) THEN Vec2(0, 0)
    ELSE VAdd(LawPull(p, wells[k], dt), LawPulls(p, wells, k + 1, dt))

\* what stage 0 added to the velocity of particle i
Gain(st, w, i) == VSub(st.gravity[i].vel, w.particles[i].vel)

GravityLaw(st, w) ==
    \A i \in 1..Len(w.particles) :
        /\ Gain(st, w, i) = LawPulls(w.particles[i], w.gravityWells, 1, st.dt)
        /\ st.gravity[i].pos = w.particles[i].pos
        /\ \A k \in 1..Len(w.gravityWells) :
             LET pull == LawPull(w.particles[i], w.gravityWells[k], st.dt)
             IN  IF InReach(w.particles[i], w.gravityWells[k])
                 THEN Hypot(pull.x, pull.y) = FMul(GRAVITY_PULL, st.dt)
                 ELSE pull = Vec2(0, 0)

C14_WitnessBeyond ==
    /\ last.op = "update"
    /\ Len(last.pre.gravityWells) = 1
    /\ last.pre.gravityWells[1].pos # last.pre.particles[1].pos
    /\ ~InReach(last.pre.particles[1], last.pre.gravityWells[1])
    /\ Gain(Stages, last.pre, 1) = Vec2(0, 0)

\* the stages of update applied to w one after the other: gravity,
\* integration, collisions, drag, walls, tiny-speed clamp
AfterGravity(w, dt) == ApplyGravity(w.particles, w.gravityWells, dt)

AfterCollisions(w, dt) == Collide(Integrate(AfterGravity(w, dt), dt), w.restitution).ps

InStageOrder(w, dt) ==
    ClampAll(WallsAll(DragAll(AfterCollisions(w, dt), w.drag, dt), w), w.gravityWells)

\* no pair response moved particle i in the update that left st
NotHit(st, i) == \A k \in 1..Len(st.hits) : i \notin { st.hits[k][1], st.hits[k][2] }

\* the displacement of each particle in stage 1 is dt times the velocity
\* stage 0 left it, and that is where a particle no later stage moved ends
DisplacedByNewVelocity(st, w, now) ==
    \A i \in 1..Len(w.particles) :
        /\ st.moved[i].pos.x = w.particles[i].pos.x + FMul(st.gravity[i].vel.x, st.dt)
        /\ st.moved[i].pos.y = w.particles[i].pos.y + FMul(st.gravity[i].vel.y, st.dt)
        /\ st.moved[i].vel = st.gravity[i].vel
        /\ (NotHit(st, i) /\ ~WallMoved(st, i)) => now[i].pos = st.moved[i].pos

\* C15: within one update gravity is applied to the velocities before
\* positions are integrated, so the displacement of a body in that update is
\* dt times its velocity after that update's gravity; collisions, drag, walls
\* and the tiny-speed clamp follow in that order.
C15_StageOrder ==
    last.op = "update" =>
        /\ simulation.particles = InStageOrder(last.pre, ClampDt(last.dt))
        /\ DisplacedByNewVelocity(Stages, last.pre, simulation.particles)

\* stage 0 changed the velocity of particle i and nothing after stage 1 moved it
PulledThenMoved(st, w, now) ==
    \E i \in 1..Len(w.particles) :
        /\ st.gravity[i].vel # w.particles[i].vel
        /\ NotHit(st, i) /\ ~WallMoved(st, i)
        /\ now[i].pos # VAdd(w.particles[i].pos, VScale(w.particles[i].vel, st.dt))

\* an update in which a well changed a body's velocity and the body ended
\* elsewhere than its old velocity would have carried it
C15_Witness == last.op = "update" /\ PulledThenMoved(Stages, last.pre, simulation.particles)

\* how far the response moved the particle a into the particle c
Moved(a, c) == VSub(c.pos, a.pos)

\* u and v differ by no more than Tol ticks in either component
VNear(u, v) == IAbs(u.x - v.x) <= Tol /\ IAbs(u.y - v.y) <= Tol

\* the two displacements of a response to a, b with normal n and overlap o,
\* that left c, d: the law, their sum, the rest of the mass-weighted centre
\* and the heavier body moving less.  Each product is rounded to a tick, so
\* the equalities are meant to within Tol ticks.
SplitByOtherMass(a, b, c, d, n, o) ==
    /\ VNear(Moved(a, c), VScale(n, 0 - FDiv(FMul(o, Mass(b)), Mass(a) + Mass(b))))
    /\ VNear(Moved(b, d), VScale(n, FDiv(FMul(o, Mass(a)), Mass(a) + Mass(b))))
    /\ VNear(VSub(Moved(b, d), Moved(a, c)), VScale(n, o))
    /\ VNear(VAdd(VScale(Moved(a, c), Mass(a)), VScale(Moved(b, d), Mass(b))),
             Vec2(0, 0))
    /\ a.radius > b.radius => length(Moved(a, c)) < length(Moved(b, d))
    /\ a.radius < b.radius => length(Moved(a, c)) > length(Moved(b, d))
    /\ a.radius = b.radius => length(Moved(a, c)) = length(Moved(b, d))

\* C16: the response to an overlapping pair moves body i by
\* -n * overlap * m_j / (m_i + m_j) and body j by +n * overlap * m_i / (m_i + m_j):
\* the two displacements add up to the whole overlap along n, the body of
\* larger radius moves less, and the mass-weighted centre stays where it was.
C16_CorrectionSplit ==
    last.op = "resolve" =>
        SplitByOtherMass(last.pre.particles[1], last.pre.particles[2],
                         simulation.particles[1], simulation.particles[2],
                         PairNormal, Overlap(last.pre.particles[1], last.pre.particles[2]))

\* a response that pushed two bodies of unequal radius apart along an oblique
\* normal
C16_Witness ==
    /\ last.op = "resolve"
    /\ last.pre.particles[1].radius > last.pre.particles[2].radius
    /\ PairNormal.x # 0 /\ PairNormal.y # 0
    /\ simulation.particles[1].pos # last.pre.particles[1].pos
    /\ simulation.particles[2].pos # last.pre.particles[2].pos

\* the unit vector across n
Across(n) == Vec2(0 - n.y, n.x)

\* the response with normal n that turned a into c left the component of
\* the velocity across n as it was
OnlyAlongNormal(a, c, n) == dot(c.vel, Across(n)) = dot(a.vel, Across(n))

\* C17: the response to an overlapping pair changes each velocity along the
\* contact normal only: the component perpendicular to the normal is what it
\* was; and when the two normal components are equal (v1n = v2n) both
\* velocities are exactly what they were.
C17_NormalOnly ==
    last.op = "resolve" =>
        /\ OnlyAlongNormal(last.pre.particles[1], simulation.particles[1], PairNormal)
        /\ OnlyAlongNormal(last.pre.particles[2], simulation.particles[2], PairNormal)
        /\ dot(last.pre.particles[1].vel, PairNormal)
             = dot(last.pre.particles[2].vel, PairNormal)
           => /\ simulation.particles[1].vel = last.pre.particles[1].vel
              /\ simulation.particles[2].vel = last.pre.particles[2].vel

\* a response along an oblique normal that changed both velocities of a pair
\* moving across the normal as well
C17_Witness ==
    /\ last.op = "resolve"
    /\ PairNormal.x # 0 /\ PairNormal.y # 0
    /\ dot(last.pre.particles[1].vel, Across(PairNormal)) # 0
    /\ simulation.particles[1].vel # last.pre.particles[1].vel
    /\ simulation.particles[2].vel # last.pre.particles[2].vel

\* a response to a pair moving with equal, nonzero normal components
C17_WitnessEqual ==
    /\ last.op = "resolve"
    /\ dot(last.pre.particles[1].vel, PairNormal) # 0
    /\ dot(last.pre.particles[1].vel, PairNormal)
         = dot(last.pre.particles[2].vel, PairNormal)
    /\ last.pre.particles[1].vel # last.pre.particles[2].vel
    /\ simulation.particles[1].vel = last.pre.particles[1].vel

\* pair p comes before pair q in increasing (i, j) order
PairBefore(p, q) == p[1] < q[1] \/ (p[1] = q[1] /\ p[2] < q[2])

\* scan lists every pair i < j of 1..n once, in increasing (i, j) order
EveryPairOnceInOrder(scan, n) ==
    /\ 2 * Len(scan) = n * (n - 1)
    /\ \A k \in 1..Len(scan) :
         /\ 1 <= scan[k][1] /\ scan[k][1] < scan[k][2] /\ scan[k][2] <= n
         /\ k < Len(scan) => PairBefore(scan[k], scan[k + 1])
    /\ \A i \in 1..n : \A j \in (i + 1)..n :
         \E k \in 1..Len(scan) : scan[k] = <<i, j>>

\* the pairs scan[k..] tested and resolved one after the other, each on the
\* particles the pairs before it left
RECURSIVE ResolvedInTurn(_, _, _, _)
ResolvedInTurn(ps, scan, k, restitution_) ==
    IF k > Len(scan) THEN ps
    ELSE ResolvedInTurn(
             IF Overlapping(ps[scan[k][1]], ps[scan[k][2]])
             THEN WithPair(ps, scan[k][1], scan[k][2],
                           ResolvePair(ps[scan[k][1]], ps[scan[k][2]], restitution_))
             ELSE ps,
             scan, k + 1, restitution_)

PairScan(st, w) ==
    /\ EveryPairOnceInOrder(st.scan, Len(w.particles))
    /\ st.collided = ResolvedInTurn(st.moved, st.scan, 1, w.restitution)
    /\ Len(st.final) = Len(w.particles)

\* C18: stage 2 of update examines every unordered pair (i, j), i < j, exactly
\* once, in increasing (i, j) order, n * (n - 1) / 2 checks for n bodies, and
\* resolves the pairs one after the other, a later pair reading the positions
\* and velocities an earlier one has already changed; update returns.
C18_PairScan == last.op = "update" => PairScan(Stages, last.pre)

\* the pair (2, 3) was resolved on a body the pair (1, 2) had already moved:
\* the outcome differs from a response to the two as stage 1 left them
LaterPairReadEarlier(st, w) ==
    /\ Len(st.scan) = 6
    /\ \E k \in 1..Len(st.hits) : st.hits[k] = <<1, 2>>
    /\ \E k \in 1..Len(st.hits) : st.hits[k] = <<2, 3>>
    /\ ~(\E k \in 1..Len(st.hits) : st.hits[k][2] = 4)
    /\ ~(\E k \in 1..Len(st.hits) : st.hits[k] = <<1, 3>>)
    /\ st.collided[3] # ResolvePair(st.moved[2], st.moved[3], w.restitution)[2]

C18_Witness == last.op = "update" /\ LaterPairReadEarlier(Stages, last.pre)

\* particle q is particle p but for pos and vel
SameButPosVel(p, q) == [q EXCEPT !.pos = p.pos, !.vel = p.vel] = p

\* world v is world w but for the pos and vel of its particles
OnlyPosVelChanged(w, v) ==
    /\ Len(v.particles) = Len(w.particles)
    /\ \A i \in 1..Len(w.particles) :
         /\ SameButPosVel(w.particles[i], v.particles[i])
         /\ v.particles[i].radius = w.particles[i].radius
         /\ v.particles[i].color = w.particles[i].color
         /\ v.particles[i].trail = w.particles[i].trail
         /\ v.particles[i].trailIndex = w.particles[i].trailIndex
         /\ v.particles[i].trailLength = w.particles[i].trailLength
    /\ v.gravityWells = w.gravityWells
    /\ v.worldW = w.worldW
    /\ v.worldH = w.worldH
    /\ v.restitution = w.restitution
    /\ v.drag = w.drag

\* C19: update writes only the pos and vel of the bodies: each body's radius,
\* color, trail array, trailIndex and trailLength, every field of every
\* attractor, worldW, worldH, restitution and drag are after the call what
\* they were before it.
C19_UpdateFrame == last.op = "update" => OnlyPosVelChanged(last.pre, simulation)

\* an update of a world with a well that changed the pos and the vel of a body
C19_Witness ==
    /\ last.op = "update"
    /\ Len(simulation.gravityWells) > 0
    /\ \E i \in Bodies :
         /\ simulation.particles[i].pos # last.pre.particles[i].pos
         /\ simulation.particles[i].vel # last.pre.particles[i].vel

\* the steps of the host that spawn
SpawnsParticle ==
    \E d \in DragOffsets, c \in BrightColors :
        ReleaseParticle(app.dragStartX + d[1], app.dragStartY + d[2], c)

\* a frame of a paused App leaves the world as it is and one of a running App
\* updates it; the Space key flips paused and nothing else of the world; and
\* while paused a spawn adds its body or well and the r key empties the world
PauseGated ==
    /\ \A dt \in FrameTimes :
         Frame(dt) => /\ app.paused => simulation' = simulation
                      /\ ~app.paused => simulation' = update(simulation, dt)
                      /\ app'.paused = app.paused
    /\ KeySpace => /\ app'.paused = ~app.paused
                   /\ simulation' = simulation
    /\ (app.paused /\ SpawnsParticle) =>
          /\ Len(simulation'.particles) = Len(simulation.particles) + 1
          /\ SubSeq(simulation'.particles, 1, Len(simulation.particles))
               = simulation.particles
          /\ app'.paused
    /\ (app.paused /\ ReleaseWell) =>
          /\ Len(simulation'.gravityWells) = Len(simulation.gravityWells) + 1
          /\ app'.paused
    /\ (app.paused /\ KeyR) =>
          /\ simulation'.particles = <<>>
          /\ simulation'.gravityWells = <<>>
          /\ app'.paused

\* C20: while the App is paused App::update does not call Simulation::update,
\* so positions and velocities are the same from frame to frame; spawn
\* gestures and clear still take effect while paused; each press of Space
\* toggles paused.
C20_PauseGating == [][PauseGated]_vars

\* a frame of a paused App over a world that holds a moving body: nothing moved
C20_Witness ==
    /\ last.op = "pausedFrame"
    /\ app.paused
    /\ \E i \in Bodies : simulation.particles[i].vel # Vec2(0, 0)
    /\ simulation = last.pre

\* a body spawned while paused
C20_WitnessSpawn ==
    /\ last.op = "spawn"
    /\ app.paused
    /\ Len(simulation.particles) = Len(last.pre.particles) + 1

\* a second press of Space: running again
C20_WitnessResume ==
    /\ last.op = "space"
    /\ ~app.paused

\* the particle and the well a step has appended
NewParticle == simulation'.particles[Len(simulation'.particles)]

NewWell == simulation'.gravityWells[Len(simulation'.gravityWells)]

\* the press position
PressedAt == Vec2(Num(app.dragStartX, 1), Num(app.dragStartY, 1))

\* the press position brought into [radius, worldW - radius] x
\* [radius, worldH - radius] as spawnParticle does
PressedAtClamped ==
    Vec2(clamp(Num(app.dragStartX, 1), particleRadius, simulation.worldW - particleRadius),
         clamp(Num(app.dragStartY, 1), particleRadius, simulation.worldH - particleRadius))

\* this step adds something to the world
Adds ==
    \/ Len(simulation'.particles) > Len(simulation.particles)
    \/ Len(simulation'.gravityWells) > Len(simulation.gravityWells)

\* this step adds one particle, at position at, and nothing else
AddsOneParticle(at) ==
    /\ Len(simulation'.particles) = Len(simulation.particles) + 1
    /\ SubSeq(simulation'.particles, 1, Len(simulation.particles)) = simulation.particles
    /\ simulation'.gravityWells = simulation.gravityWells
    /\ NewParticle.pos = at

\* this step adds one well, at the press position, and nothing else
AddsOneWell ==
    /\ Len(simulation'.gravityWells) = Len(simulation.gravityWells) + 1
    /\ SubSeq(simulation'.gravityWells, 1, Len(simulation.gravityWells))
         = simulation.gravityWells
    /\ simulation'.particles = simulation.particles
    /\ NewWell.pos = PressedAt

\* the protocol of the spawn gesture, a spawned particle standing at position at
GestureProtocol(at) ==
    /\ Adds => /\ app.dragActive
               /\ SpawnsParticle \/ ReleaseWell
    /\ (SpawnsParticle \/ ReleaseWell) =>
          /\ app.dragActive
          /\ ~app'.dragActive
          /\ app.selectedPlaceable = "Particle" => AddsOneParticle(at)
          /\ app.selectedPlaceable = "GravityWell" => AddsOneWell
    /\ (~app.dragActive /\ app'.dragActive) => \E p \in PressPoints : MainPress(p[1], p[2])
    /\ \A p \in PressPoints :
         MainPress(p[1], p[2]) => /\ app'.dragActive
                                  /\ app'.dragStartX = p[1] /\ app'.dragStartY = p[2]
                                  /\ simulation' = simulation
    /\ \A c \in MenuClicks :
         MenuClick(c[1], c[2]) => /\ app'.dragActive = app.dragActive
                                  /\ simulation' = simulation
    /\ ReleaseElsewhere => /\ app.dragActive
                           /\ ~app'.dragActive
                           /\ simulation' = simulation

\* C21 as stated: an entity is added only on a left release in the main window
\* while dragActive is true; each such release adds exactly one entity of the
\* tool selected at release time, placed at the press position, and resets
\* dragActive; a left press in the menu never sets dragActive; a left release
\* outside the main window while dragActive only resets dragActive.
C21_AsStated == [][GestureProtocol(PressedAt)]_vars

\* C21: an entity is added only on a left release in the main window while
\* dragActive is true, which only a left press in the main window sets; each
\* such release adds exactly one entity of the tool selected at release time
\* and resets dragActive; a well stands at the press position, a particle at
\* the press position clamped to [radius, worldW - radius] x
\* [radius, worldH - radius]; a left press in the menu leaves dragActive as it
\* is; a left release outside the main window while dragActive only resets
\* dragActive.
C21_GestureProtocol == [][GestureProtocol(PressedAtClamped)]_vars

\* a release has spawned a particle at a press position inside the world,
\* with the velocity of the drag
C21_Witness ==
    /\ last.op = "spawn"
    /\ ~app.dragActive
    /\ Len(simulation.particles) = Len(last.pre.particles) + 1
    /\ Spawned.pos = Vec2(last.x, last.y)
    /\ Spawned.vel # Vec2(0, 0)

\* a release has spawned a well at the press position
C21_WitnessWell ==
    /\ last.op = "spawnWell"
    /\ ~app.dragActive
    /\ Len(simulation.gravityWells) = Len(last.pre.gravityWells) + 1
    /\ simulation.gravityWells[Len(simulation.gravityWells)].pos = Vec2(last.x, last.y)

\* App::render has just drawn the world: the last thing done to it was a
\* frame, paused or not
Rendered == last.op \in { "update", "pausedFrame" }

\* the world has room for particle p along both axes
HasRoom(p, w) == w.worldW >= 2 * p.radius /\ w.worldH >= 2 * p.radius

\* C22 as stated: over any interleaving of host events and frames, at every
\* App::render every body lies within the current bounds,
\* radius <= pos.x <= worldW - radius and radius <= pos.y <= worldH - radius;
\* in particular after a resize that shrinks the world while paused.
C22_AsStated ==
    Rendered =>
        \A i \in Bodies :
            /\ InsideX(simulation.particles[i], simulation)
            /\ InsideY(simulation.particles[i], simulation)

\* a frame of a paused App has rendered a world that has room for its bodies
\* and was shrunk since the last update: a body lies beyond the bounds
C22_Witness ==
    /\ last.op = "pausedFrame"
    /\ app.paused
    /\ \A i \in Bodies : HasRoom(simulation.particles[i], simulation)
    /\ \E i \in Bodies :
         \/ ~InsideX(simulation.particles[i], simulation)
         \/ ~InsideY(simulation.particles[i], simulation)

\* what holds at a render: the bodies of a world that has room for them lie
\* within the bounds when the frame ran the update
C22_RunningContained ==
    last.op = "update" =>
        \A i \in Bodies :
            HasRoom(simulation.particles[i], simulation) =>
                /\ InsideX(simulation.particles[i], simulation)
                /\ InsideY(simulation.particles[i], simulation)

\* v1n - v2n of the pair held by world w
ClosingSpeed(w, n) == dot(w.particles[1].vel, n) - dot(w.particles[2].vel, n)

\* C23: the impulse is applied to every overlapping pair whatever the sign of
\* the closing velocity: for an overlapping pair that separates along the
\* normal (v1n < v2n) and restitution > 0, the response reverses the relative
\* normal velocity, so that afterwards the two bodies approach each other
\* (v1n' > v2n').
C23_SeparatingReversed ==
    (last.op = "resolve" /\ ClosingSpeed(last.pre, PairNormal) < 0
                         /\ simulation.restitution > 0) =>
        /\ ClosingSpeed(simulation, PairNormal) > 0
        /\ ClosingSpeed(simulation, PairNormal)
             = 0 - FMul(simulation.restitution, ClosingSpeed(last.pre, PairNormal))

\* a response to a pair that was separating along an oblique normal, with a
\* restitution strictly between 0 and 1: afterwards it closes
C23_Witness ==
    /\ last.op = "resolve"
    /\ PairNormal.x # 0 /\ PairNormal.y # 0
    /\ ClosingSpeed(last.pre, PairNormal) < 0
    /\ simulation.restitution > 0
    /\ simulation.restitution < Num(1, 1)
    /\ ClosingSpeed(simulation, PairNormal) > 0

\* the samples of the trail of p in the order the renderer reads them
Readout(p) == [i \in 1..p.trailLength |-> p.trail[TrailSlot(p, i - 1)]]

\* the last n elements of the sequence s
LastOf(s, n) == SubSeq(s, Len(s) - n + 1, Len(s))

\* c, p1, ..., pn: where the particle was created and what was pushed since
Recorded == <<created[1]>> \o pushed

\* every index the renderer computes for p lies in 0..59, and the number it
\* takes the remainder of is not negative
SlotsInRange(p) ==
    \A i \in 0..(p.trailLength - 1) :
        /\ p.trailIndex - p.trailLength + i + MAX_TRAIL_LENGTH >= 0
        /\ TrailSlot(p, i) \in 0..(MAX_TRAIL_LENGTH - 1)

\* C24: for a body created at c and pushed n times with positions p1..pn, the
\* trailLength slots the renderer reads with (trailIndex - trailLength + i + 60)
\* mod 60, i = 0..trailLength - 1, are, oldest first, exactly the last
\* min(n + 1, 60) elements of c, p1, ..., pn, and every index computed lies in
\* 0..59.
C24_TrailReadout ==
    /\ Len(pushed) = pushes
    /\ SlotsInRange(simulation.particles[1])
    /\ Readout(simulation.particles[1])
         = LastOf(Recorded, IF pushes + 1 < MAX_TRAIL_LENGTH
                            THEN pushes + 1 ELSE MAX_TRAIL_LENGTH)

\* the 61st push of a particle that moved between pushes: the readout starts
\* at the second push and ends at the last
C24_Witness ==
    /\ last.op = "push"
    /\ pushes = MAX_TRAIL_LENGTH + 1
    /\ Len(Readout(simulation.particles[1])) = MAX_TRAIL_LENGTH
    /\ Readout(simulation.particles[1])[1] = pushed[2]
    /\ Readout(simulation.particles[1])[MAX_TRAIL_LENGTH] = pushed[pushes]
    /\ pushed[1] # pushed[2]
    /\ pushed[2] # created[1]

====
